---- MODULE Spec2Model ----
(***************************************************************************)
(* The demo script src/demos/python/irrlicht/demo_IRR_assets.py as a state *)
(* machine.  The script is one thread of control, so its position is the   *)
(* program counter pc: the source line of the next statement to execute.   *)
(* Every statement that creates, configures, adds or attaches something is *)
(* one action; the two for loops and the while loop keep their headers as  *)
(* actions of their own.                                                   *)
(*                                                                         *)
(* Lengths and times are not simulated: a pose is the number of times the  *)
(* script or the physics step has moved the entity, and the simulation     *)
(* time is counted in hundredths of a second (DoStepDynamics(0.01) adds    *)
(* TimeStep = 1).  The coordinates drawn from ChRandom for the particles   *)
(* are not kept: the cluster is its member count.                          *)
(***************************************************************************)
EXTENDS Naturals, Integers, Sequences, FiniteSets, TLC

\* ---------------------------------------------------------------- constants

\* range(20) of the smallbox loop.
NumSmallBoxes == 20

\* range(100) of the particle loop.
NumParticles == 100

\* The literal 0.01 handed to sys.DoStepDynamics, in hundredths of a second.
TimeStep == 1

\* The position after the last line of the script (the interpreter exits).
Exit == 241

\* The viewer window is closed by the user at some frame; the model lets
\* vis.Run() answer True for at most MaxIter frames.
MaxIter == 3

\* ------------------------------------------------------------------ objects

floor     == "floor"
body      == "body"
particles == "particles"
hull      == "hull"

Entities == {floor, body, particles, hull}

\* A Python object of the script: <<name of the variable bound to it, k>>,
\* k telling apart the instances one variable is bound to in turn.
Obj(name) == <<name, 0>>

boxfloor       == Obj("boxfloor")
pathfloor      == Obj("pathfloor")
nurbs          == Obj("nurbs")
nurbsasset     == Obj("nurbsasset")
orange_mat     == Obj("orange_mat")
sphere         == Obj("sphere")
box            == Obj("box")
cyl            == Obj("cyl")
mesh           == Obj("mesh")
objmesh        == Obj("objmesh")
sphereparticle == Obj("sphereparticle")
hullshape      == Obj("hullshape")

\* The instance bound to `smallbox` in iteration k of the loop at line 165.
smallbox(k) == <<"smallbox", k>>

SmallBoxes == {smallbox(k) : k \in 0 .. NumSmallBoxes - 1}

VisualShapes ==
    {boxfloor, pathfloor, nurbsasset, sphere, box, cyl, mesh, objmesh,
     sphereparticle, hullshape} \cup SmallBoxes

Objects == VisualShapes \cup {nurbs, orange_mat}

\* Failures of the external engines that a call of the loop body can raise.
RenderFailure  == "RenderError"
PhysicsFailure == "PhysicsError"

\* ---------------------------------------------------------------- variables

VARIABLES
    pc,          \* source line of the next statement; Exit when the script ended
    raised,      \* the exception that ended the script, "none" if none
    created,     \* the entities constructed so far
    fixed,       \* entity -> SetBodyFixed flag
    collision,   \* entity -> [shapes: collision shapes added, collide: flag]
    pose,        \* entity -> number of moves applied to it
    cloud,       \* the particle cluster: [count, massSet, inertiaSet]
    sys,         \* the ChSystem: [items: entities added, time, steps]
    objects,     \* shapes, geometries and materials constructed so far
    cfg,         \* object -> the configuring calls made on it, in order
    materials,   \* shape -> the materials added to it, in order
    firstUse,    \* object -> length of cfg when it was first attached, -1 before
    attachments, \* entity -> its visual shapes, in attachment order
    attachCalls, \* every AddVisualShape call made: <<entity, shape>>, in order
    j,           \* loop variable of line 165, -1 while unbound
    i,           \* loop variable of line 193, -1 while unbound
    vis,         \* the viewer: [state, begun, renders, ended, texts]
    runChecks,   \* evaluations of vis.Run()
    iters,       \* completed iterations of the while loop
    renderLog,   \* what each vis.Render() drew: [time, pose]
    stepLog      \* each step taken: [dt, time, pose, entities] after it

entityVars == <<created, fixed, collision, pose, cloud>>
shapeVars  == <<objects, cfg, materials, firstUse, attachments, attachCalls>>
idxVars    == <<j, i>>
loopVars   == <<vis, runChecks, iters, renderLog, stepLog>>

vars == <<pc, raised, entityVars, sys, shapeVars, idxVars, loopVars>>

\* ------------------------------------------------------------------ helpers

\* A statement that cannot fail: control moves from line l to line n.
Goto(l, n) == pc = l /\ pc' = n /\ raised' = raised

\* obj = chrono.Ch...(): a fresh object with no configuration.
New(o) == objects' = objects \cup {o}

\* A configuring call on an object (SetColor, AddSubLine, SetFilename, ...).
Configure(o, call) == cfg' = [cfg EXCEPT ![o] = Append(@, call)]

\* The first attachment of an object fixes the configuration it was given.
MarkUse(o) ==
    firstUse' = [firstUse EXCEPT ![o] = IF @ = -1 THEN Len(cfg[o]) ELSE @]

\* shape.AddMaterial(mat): configures the shape and attaches the material.
AddMaterial(s, mat) ==
    /\ Configure(s, "AddMaterial")
    /\ materials' = [materials EXCEPT ![s] = Append(@, mat)]
    /\ MarkUse(mat)

\* The registry's attach: refused when the entity is not in the Scene.
DanglingEntity(e) == e \notin sys.items

\* entity.AddVisualShape(shape [, frame]) at line l, next statement at n.
AddVisualShape(l, n, e, s) ==
    /\ pc = l
    /\ attachCalls' = Append(attachCalls, <<e, s>>)
    /\ IF DanglingEntity(e)
       THEN /\ pc' = Exit
            /\ raised' = "DanglingEntityError"
            /\ UNCHANGED <<attachments, firstUse>>
       ELSE /\ pc' = n
            /\ raised' = raised
            /\ attachments' = [attachments EXCEPT ![e] = Append(@, s)]
            /\ MarkUse(s)
    /\ UNCHANGED <<objects, cfg, materials>>
    /\ UNCHANGED <<entityVars, sys, idxVars, loopVars>>

\* sys.Add(entity) at line l, next statement at n.
SysAdd(l, n, e) ==
    /\ Goto(l, n)
    /\ sys' = [sys EXCEPT !.items = @ \cup {e}]
    /\ UNCHANGED <<entityVars, shapeVars, idxVars, loopVars>>

\* A statement at line l that only constructs object o.
NewStmt(l, n, o) ==
    /\ Goto(l, n)
    /\ New(o)
    /\ UNCHANGED <<cfg, materials, firstUse, attachments, attachCalls>>
    /\ UNCHANGED <<entityVars, sys, idxVars, loopVars>>

\* A statement at line l that only configures object o.
ConfigStmt(l, n, o, call) ==
    /\ Goto(l, n)
    /\ Configure(o, call)
    /\ UNCHANGED <<objects, materials, firstUse, attachments, attachCalls>>
    /\ UNCHANGED <<entityVars, sys, idxVars, loopVars>>

\* shape.AddMaterial(mat) at line l.
MaterialStmt(l, n, s, mat) ==
    /\ Goto(l, n)
    /\ AddMaterial(s, mat)
    /\ UNCHANGED <<objects, attachments, attachCalls>>
    /\ UNCHANGED <<entityVars, sys, idxVars, loopVars>>

\* --------------------------------------------------------------------- Init

\* The state after lines 28-29: an empty system, nothing constructed.
Init ==
    /\ pc = 38
    /\ raised = "none"
    /\ created = {}
    /\ fixed = [e \in Entities |-> FALSE]
    /\ collision = [e \in Entities |-> [shapes |-> 0, collide |-> FALSE]]
    /\ pose = [e \in Entities |-> 0]
    /\ cloud = [count |-> 0, massSet |-> FALSE, inertiaSet |-> FALSE]
    /\ sys = [items |-> {}, time |-> 0, steps |-> 0]
    /\ objects = {}
    /\ cfg = [o \in Objects |-> <<>>]
    /\ materials = [o \in Objects |-> <<>>]
    /\ firstUse = [o \in Objects |-> -1]
    /\ attachments = [e \in Entities |-> <<>>]
    /\ attachCalls = <<>>
    /\ j = -1
    /\ i = -1
    /\ vis = [state |-> "none", begun |-> 0, renders |-> 0, ended |-> 0,
              texts |-> 0]
    /\ runChecks = 0
    /\ iters = 0
    /\ renderLog = <<>>
    /\ stepLog = <<>>

\* ---------------------------------------------------------------- Example 1

\* floor = chrono.ChBody()
floor_new ==
    /\ Goto(38, 39)
    /\ created' = created \cup {floor}
    /\ UNCHANGED <<fixed, collision, pose, cloud>>
    /\ UNCHANGED <<sys, shapeVars, idxVars, loopVars>>

\* floor.SetBodyFixed(True)
floor_SetBodyFixed ==
    /\ Goto(39, 48)
    /\ fixed' = [fixed EXCEPT ![floor] = TRUE]
    /\ UNCHANGED <<created, collision, pose, cloud>>
    /\ UNCHANGED <<sys, shapeVars, idxVars, loopVars>>

\* floor.AddCollisionShape(floor_ct_shape, ...)
floor_AddCollisionShape ==
    /\ Goto(48, 49)
    /\ collision' = [collision EXCEPT ![floor].shapes = @ + 1]
    /\ UNCHANGED <<created, fixed, pose, cloud>>
    /\ UNCHANGED <<sys, shapeVars, idxVars, loopVars>>

\* floor.SetCollide(True)
floor_SetCollide ==
    /\ Goto(49, 52)
    /\ collision' = [collision EXCEPT ![floor].collide = TRUE]
    /\ UNCHANGED <<created, fixed, pose, cloud>>
    /\ UNCHANGED <<sys, shapeVars, idxVars, loopVars>>


\* sys.Add(floor) forgotten.
sys_Add_floor_missing ==
    /\ Goto(52, 57)
    /\ UNCHANGED <<entityVars, sys, shapeVars, idxVars, loopVars>>

\* sys.Add(floor)
sys_Add_floor == SysAdd(52, 57, floor)

\* boxfloor = chrono.ChVisualShapeBox(20, 1, 20)
boxfloor_new == NewStmt(57, 58, boxfloor)

\* boxfloor.SetColor(...)
boxfloor_SetColor == ConfigStmt(58, 59, boxfloor, "SetColor")

\* floor.AddVisualShape(boxfloor, ...)
floor_AddVisualShape_boxfloor == AddVisualShape(59, 64, floor, boxfloor)

\* pathfloor = chrono.ChVisualShapePath()
pathfloor_new == NewStmt(64, 68, pathfloor)

\* pathfloor.GetPathGeometry().AddSubLine(mseg1)
pathfloor_AddSubLine_mseg1 == ConfigStmt(68, 69, pathfloor, "AddSubLine")

\* pathfloor.GetPathGeometry().AddSubLine(mseg2)
pathfloor_AddSubLine_mseg2 == ConfigStmt(69, 70, pathfloor, "AddSubLine")

\* pathfloor.GetPathGeometry().AddSubLine(marc1)
pathfloor_AddSubLine_marc1 == ConfigStmt(70, 71, pathfloor, "AddSubLine")

\* floor.AddVisualShape(pathfloor)
floor_AddVisualShape_pathfloor == AddVisualShape(71, 77, floor, pathfloor)

\* nurbs = chrono.ChLineNurbs()
nurbs_new == NewStmt(77, 83, nurbs)

\* nurbs.SetupData(3, controlpoints)
nurbs_SetupData == ConfigStmt(83, 85, nurbs, "SetupData")

\* nurbsasset = chrono.ChVisualShapeLine()
nurbsasset_new == NewStmt(85, 86, nurbsasset)

\* nurbsasset.SetLineGeometry(nurbs): the geometry is now in use
nurbsasset_SetLineGeometry ==
    /\ Goto(86, 87)
    /\ Configure(nurbsasset, "SetLineGeometry")
    /\ MarkUse(nurbs)
    /\ UNCHANGED <<objects, materials, attachments, attachCalls>>
    /\ UNCHANGED <<entityVars, sys, idxVars, loopVars>>

\* floor.AddVisualShape(nurbsasset)
floor_AddVisualShape_nurbsasset == AddVisualShape(87, 123, floor, nurbsasset)

Example1 ==
    \/ floor_new
    \/ floor_SetBodyFixed
    \/ floor_AddCollisionShape
    \/ floor_SetCollide
    \/ sys_Add_floor
    \/ boxfloor_new
    \/ boxfloor_SetColor
    \/ floor_AddVisualShape_boxfloor
    \/ pathfloor_new
    \/ pathfloor_AddSubLine_mseg1
    \/ pathfloor_AddSubLine_mseg2
    \/ pathfloor_AddSubLine_marc1
    \/ floor_AddVisualShape_pathfloor
    \/ nurbs_new
    \/ nurbs_SetupData
    \/ nurbsasset_new
    \/ nurbsasset_SetLineGeometry
    \/ floor_AddVisualShape_nurbsasset

\* ---------------------------------------------------------------- Example 2

\* body = chrono.ChBody()
body_new ==
    /\ Goto(123, 124)
    /\ created' = created \cup {body}
    /\ UNCHANGED <<fixed, collision, pose, cloud>>
    /\ UNCHANGED <<sys, shapeVars, idxVars, loopVars>>

\* body.SetBodyFixed(True)
body_SetBodyFixed ==
    /\ Goto(124, 125)
    /\ fixed' = [fixed EXCEPT ![body] = TRUE]
    /\ UNCHANGED <<created, collision, pose, cloud>>
    /\ UNCHANGED <<sys, shapeVars, idxVars, loopVars>>

\* sys.Add(body)
sys_Add_body == SysAdd(125, 128, body)

\* orange_mat = chrono.ChVisualMaterial()
orange_mat_new == NewStmt(128, 129, orange_mat)

\* orange_mat.SetDiffuseColor(...)
orange_mat_SetDiffuseColor ==
    ConfigStmt(129, 132, orange_mat, "SetDiffuseColor")

\* sphere = chrono.ChVisualShapeSphere(0.5)
sphere_new == NewStmt(132, 133, sphere)

\* sphere.AddMaterial(orange_mat)
sphere_AddMaterial == MaterialStmt(133, 134, sphere, orange_mat)

\* body.AddVisualShape(sphere, ...)
body_AddVisualShape_sphere == AddVisualShape(134, 137, body, sphere)

\* box = chrono.ChVisualShapeBox(0.6, 1.0, 0.2)
box_new == NewStmt(137, 138, box)

\* box.AddMaterial(orange_mat)
box_AddMaterial == MaterialStmt(138, 139, box, orange_mat)

\* body.AddVisualShape(box, ...)
body_AddVisualShape_box == AddVisualShape(139, 142, body, box)

\* cyl = chrono.ChVisualShapeCylinder(0.3, 0.7)
cyl_new == NewStmt(142, 143, cyl)

\* body.AddVisualShape(cyl, ...)
body_AddVisualShape_cyl == AddVisualShape(143, 149, body, cyl)

\* mesh = chrono.ChVisualShapeTriangleMesh()
mesh_new == NewStmt(149, 150, mesh)

\* mesh.GetMesh().addTriangle(...)
mesh_addTriangle == ConfigStmt(150, 151, mesh, "addTriangle")

\* mesh.AddMaterial(orange_mat)
mesh_AddMaterial == MaterialStmt(151, 153, mesh, orange_mat)

\* body.AddVisualShape(mesh, ...), first of three
body_AddVisualShape_mesh_1 == AddVisualShape(153, 154, body, mesh)


\* The second instance recoloured before it is attached: mesh.SetColor(...)
\* on the shape the first attachment already shares.
body_AddVisualShape_mesh_2_recoloured ==
    /\ Goto(154, 155)
    /\ Configure(mesh, "SetColor")
    /\ attachments' = [attachments EXCEPT ![body] = Append(@, mesh)]
    /\ attachCalls' = Append(attachCalls, <<body, mesh>>)
    /\ MarkUse(mesh)
    /\ UNCHANGED <<objects, materials>>
    /\ UNCHANGED <<entityVars, sys, idxVars, loopVars>>

\* body.AddVisualShape(mesh, ...), second of three
body_AddVisualShape_mesh_2 == AddVisualShape(154, 155, body, mesh)


\* The third attachment of the same instance dropped as a duplicate.
body_AddVisualShape_mesh_3_dropped ==
    /\ Goto(155, 159)
    /\ UNCHANGED <<entityVars, sys, shapeVars, idxVars, loopVars>>

\* body.AddVisualShape(mesh, ...), third of three
body_AddVisualShape_mesh_3 == AddVisualShape(155, 159, body, mesh)

\* objmesh = chrono.ChVisualShapeModelFile()
objmesh_new == NewStmt(159, 160, objmesh)

\* objmesh.SetFilename(...)
objmesh_SetFilename == ConfigStmt(160, 161, objmesh, "SetFilename")

\* objmesh.SetTexture(...)
objmesh_SetTexture == ConfigStmt(161, 162, objmesh, "SetTexture")

\* body.AddVisualShape(objmesh, ...)
body_AddVisualShape_objmesh == AddVisualShape(162, 165, body, objmesh)

\* for j in range(20): bind the next j, or leave the loop
for_j ==
    /\ pc = 165
    /\ raised' = raised
    /\ IF j + 1 < NumSmallBoxes
       THEN j' = j + 1 /\ pc' = 166
       ELSE j' = j /\ pc' = 182
    /\ UNCHANGED <<i, entityVars, sys, shapeVars, loopVars>>

\* smallbox = chrono.ChVisualShapeBox(0.2, 0.2, 0.02): a new instance
smallbox_new == NewStmt(166, 167, smallbox(j))

\* smallbox.SetColor(...)
smallbox_SetColor == ConfigStmt(167, 170, smallbox(j), "SetColor")

\* body.AddVisualShape(smallbox, chrono.ChFrameD(pos, rot))
body_AddVisualShape_smallbox == AddVisualShape(170, 165, body, smallbox(j))

Example2 ==
    \/ body_new
    \/ body_SetBodyFixed
    \/ sys_Add_body
    \/ orange_mat_new
    \/ orange_mat_SetDiffuseColor
    \/ sphere_new
    \/ sphere_AddMaterial
    \/ body_AddVisualShape_sphere
    \/ box_new
    \/ box_AddMaterial
    \/ body_AddVisualShape_box
    \/ cyl_new
    \/ body_AddVisualShape_cyl
    \/ mesh_new
    \/ mesh_addTriangle
    \/ mesh_AddMaterial
    \/ body_AddVisualShape_mesh_1
    \/ body_AddVisualShape_mesh_2
    \/ body_AddVisualShape_mesh_3
    \/ objmesh_new
    \/ objmesh_SetFilename
    \/ objmesh_SetTexture
    \/ body_AddVisualShape_objmesh
    \/ for_j
    \/ smallbox_new
    \/ smallbox_SetColor
    \/ body_AddVisualShape_smallbox

\* ---------------------------------------------------------------- Example 3

\* particles = chrono.ChParticleCloud()
particles_new ==
    /\ Goto(182, 189)
    /\ created' = created \cup {particles}
    /\ UNCHANGED <<fixed, collision, pose, cloud>>
    /\ UNCHANGED <<sys, shapeVars, idxVars, loopVars>>


\* The collision shape not given before the particles are created.
particles_AddCollisionShape_missing ==
    /\ Goto(189, 190)
    /\ UNCHANGED <<entityVars, sys, shapeVars, idxVars, loopVars>>

\* particles.AddCollisionShape(particles_ct_shape)
particles_AddCollisionShape ==
    /\ Goto(189, 190)
    /\ collision' = [collision EXCEPT ![particles].shapes = @ + 1]
    /\ UNCHANGED <<created, fixed, pose, cloud>>
    /\ UNCHANGED <<sys, shapeVars, idxVars, loopVars>>

\* particles.SetCollide(True)
particles_SetCollide ==
    /\ Goto(190, 193)
    /\ collision' = [collision EXCEPT ![particles].collide = TRUE]
    /\ UNCHANGED <<created, fixed, pose, cloud>>
    /\ UNCHANGED <<sys, shapeVars, idxVars, loopVars>>

\* for i in range(100): bind the next i, or leave the loop
for_i ==
    /\ pc = 193
    /\ raised' = raised
    /\ IF i + 1 < NumParticles
       THEN i' = i + 1 /\ pc' = 194
       ELSE i' = i /\ pc' = 198
    /\ UNCHANGED <<j, entityVars, sys, shapeVars, loopVars>>

\* particles.AddParticle(chrono.ChCoordsysD(...)): one more member
particles_AddParticle ==
    /\ Goto(194, 193)
    /\ cloud' = [cloud EXCEPT !.count = @ + 1]
    /\ UNCHANGED <<created, fixed, collision, pose>>
    /\ UNCHANGED <<sys, shapeVars, idxVars, loopVars>>

\* particles.SetMass(0.1)
particles_SetMass ==
    /\ Goto(198, 199)
    /\ cloud' = [cloud EXCEPT !.massSet = TRUE]
    /\ UNCHANGED <<created, fixed, collision, pose>>
    /\ UNCHANGED <<sys, shapeVars, idxVars, loopVars>>

\* particles.SetInertiaXX(...)
particles_SetInertiaXX ==
    /\ Goto(199, 202)
    /\ cloud' = [cloud EXCEPT !.inertiaSet = TRUE]
    /\ UNCHANGED <<created, fixed, collision, pose>>
    /\ UNCHANGED <<sys, shapeVars, idxVars, loopVars>>

\* sys.Add(particles)
sys_Add_particles == SysAdd(202, 206, particles)

\* sphereparticle = chrono.ChVisualShapeSphere(0.05)
sphereparticle_new == NewStmt(206, 207, sphereparticle)

\* particles.AddVisualShape(sphereparticle)
particles_AddVisualShape_sphereparticle ==
    AddVisualShape(207, 218, particles, sphereparticle)

\* hull = chrono.ChBodyEasyConvexHullAuxRef(mpoints, 1000, True, True, ...):
\* the third argument asks the constructor for a visual shape of the hull and
\* the fourth for its collision shape; the constructor attaches both itself,
\* to a body that no system holds yet, and returns normally.
hull_new ==
    /\ Goto(218, 220)
    /\ created' = created \cup {hull}
    /\ collision' = [collision EXCEPT ![hull] = [shapes |-> 1, collide |-> TRUE]]
    /\ New(hullshape)
    /\ attachments' = [attachments EXCEPT ![hull] = Append(@, hullshape)]
    /\ attachCalls' = Append(attachCalls, <<hull, hullshape>>)
    /\ MarkUse(hullshape)
    /\ UNCHANGED <<fixed, pose, cloud, cfg, materials>>
    /\ UNCHANGED <<sys, idxVars, loopVars>>

\* hull.Move(chrono.ChVectorD(2, 0.3, 0))
hull_Move ==
    /\ Goto(220, 221)
    /\ pose' = [pose EXCEPT ![hull] = @ + 1]
    /\ UNCHANGED <<created, fixed, collision, cloud>>
    /\ UNCHANGED <<sys, shapeVars, idxVars, loopVars>>


\* sys.Add(hull) forgotten.
sys_Add_hull_missing ==
    /\ Goto(221, 224)
    /\ UNCHANGED <<entityVars, sys, shapeVars, idxVars, loopVars>>

\* sys.Add(hull)
sys_Add_hull == SysAdd(221, 224, hull)

Example3 ==
    \/ particles_new
    \/ particles_AddCollisionShape
    \/ particles_SetCollide
    \/ for_i
    \/ particles_AddParticle
    \/ particles_SetMass
    \/ particles_SetInertiaXX
    \/ sys_Add_particles
    \/ sphereparticle_new
    \/ particles_AddVisualShape_sphereparticle
    \/ hull_new
    \/ hull_Move
    \/ sys_Add_hull

\* ------------------------------------------------------------------- viewer

\* A viewer statement at line l that moves the viewer to state s.
VisStmt(l, n, s) ==
    /\ Goto(l, n)
    /\ vis' = [vis EXCEPT !.state = s]
    /\ UNCHANGED <<runChecks, iters, renderLog, stepLog>>
    /\ UNCHANGED <<entityVars, sys, shapeVars, idxVars>>

\* vis = chronoirr.ChVisualSystemIrrlicht()
vis_new == VisStmt(224, 225, "created")

\* vis.AttachSystem(sys)
vis_AttachSystem == VisStmt(225, 226, "attached")

\* vis.SetWindowSize(1024,768); vis.SetWindowTitle(...)
vis_SetWindow == VisStmt(226, 228, "sized")

\* vis.Initialize()
vis_Initialize == VisStmt(228, 229, "initialized")

\* vis.AddLogo(...); vis.AddSkyBox(); vis.AddCamera(...); vis.AddTypicalLights()
vis_AddSceneItems == VisStmt(229, 235, "ready")

Viewer ==
    \/ vis_new
    \/ vis_AttachSystem
    \/ vis_SetWindow
    \/ vis_Initialize
    \/ vis_AddSceneItems

\* ---------------------------------------------------------- Simulation loop

\* An uncaught exception f raised by the call at line l: the script has no
\* try statement, so the interpreter leaves the loop and exits.
Raise(l, f) == pc = l /\ pc' = Exit /\ raised' = f

\* while vis.Run(): the window is open (enter the body) or closed (leave)
vis_Run ==
    /\ pc = 235
    /\ raised' = raised
    /\ runChecks' = runChecks + 1
    /\ \E running \in BOOLEAN :
          /\ running => iters < MaxIter
          /\ pc' = IF running THEN 236 ELSE Exit
    /\ UNCHANGED <<vis, iters, renderLog, stepLog>>
    /\ UNCHANGED <<entityVars, sys, shapeVars, idxVars>>

\* vis.BeginScene()
vis_BeginScene ==
    /\ \/ Goto(236, 237) /\ vis' = [vis EXCEPT !.begun = @ + 1]
       \/ Raise(236, RenderFailure) /\ vis' = vis
    /\ UNCHANGED <<runChecks, iters, renderLog, stepLog>>
    /\ UNCHANGED <<entityVars, sys, shapeVars, idxVars>>


\* vis.Render() left out of the loop body: the frame is begun and ended but
\* nothing is drawn.
vis_Render_skipped ==
    /\ Goto(237, 238)
    /\ UNCHANGED <<entityVars, sys, shapeVars, idxVars, loopVars>>

\* vis.Render() inside try/except: a failure is dropped and the loop goes on.
vis_Render_caught ==
    /\ \/ /\ Goto(237, 238)
          /\ vis' = [vis EXCEPT !.renders = @ + 1]
          /\ renderLog' = Append(renderLog, [time |-> sys.time, pose |-> pose])
       \/ Goto(237, 238) /\ UNCHANGED <<vis, renderLog>>
    /\ UNCHANGED <<runChecks, iters, stepLog>>
    /\ UNCHANGED <<entityVars, sys, shapeVars, idxVars>>

\* vis.Render(): draws the system as it is now
vis_Render ==
    /\ \/ /\ Goto(237, 238)
          /\ vis' = [vis EXCEPT !.renders = @ + 1]
          /\ renderLog' = Append(renderLog, [time |-> sys.time, pose |-> pose])
       \/ Raise(237, RenderFailure) /\ UNCHANGED <<vis, renderLog>>
    /\ UNCHANGED <<runChecks, iters, stepLog>>
    /\ UNCHANGED <<entityVars, sys, shapeVars, idxVars>>


\* The text element created once and reused: later frames add nothing.
vis_addStaticText_once ==
    /\ \/ Goto(238, 239) /\ vis' = [vis EXCEPT !.texts = 1]
       \/ Raise(238, RenderFailure) /\ vis' = vis
    /\ UNCHANGED <<runChecks, iters, renderLog, stepLog>>
    /\ UNCHANGED <<entityVars, sys, shapeVars, idxVars>>

\* vis.GetGUIEnvironment().addStaticText('Hello World!', ...)
vis_addStaticText ==
    /\ \/ Goto(238, 239) /\ vis' = [vis EXCEPT !.texts = @ + 1]
       \/ Raise(238, RenderFailure) /\ vis' = vis
    /\ UNCHANGED <<runChecks, iters, renderLog, stepLog>>
    /\ UNCHANGED <<entityVars, sys, shapeVars, idxVars>>


\* vis.EndScene() followed by `if not vis.Run(): break`: the stop condition
\* is checked in the middle of the body and can end the frame before its step.
vis_EndScene_break ==
    /\ \/ Goto(239, 240) /\ vis' = [vis EXCEPT !.ended = @ + 1]
          /\ runChecks' = runChecks
       \/ Goto(239, Exit) /\ vis' = [vis EXCEPT !.ended = @ + 1]
          /\ runChecks' = runChecks + 1
       \/ Raise(239, RenderFailure) /\ vis' = vis /\ runChecks' = runChecks
    /\ UNCHANGED <<iters, renderLog, stepLog>>
    /\ UNCHANGED <<entityVars, sys, shapeVars, idxVars>>

\* vis.EndScene()
vis_EndScene ==
    /\ \/ Goto(239, 240) /\ vis' = [vis EXCEPT !.ended = @ + 1]
       \/ Raise(239, RenderFailure) /\ vis' = vis
    /\ UNCHANGED <<runChecks, iters, renderLog, stepLog>>
    /\ UNCHANGED <<entityVars, sys, shapeVars, idxVars>>

\* The driver's check of its argument: a timestep must be positive.
InvalidTimestep(dt) == dt <= 0

\* One physics tick: every movable entity of the system gets a new pose.
Stepped(p) ==
    [e \in Entities |-> IF e \in sys.items /\ ~fixed[e] THEN p[e] + 1 ELSE p[e]]

\* sys.DoStepDynamics(dt) at line l; the end of the loop body, so a step
\* that returns completes the iteration and control goes back to line n.
DoStepDynamics(l, n, dt) ==
    /\ IF InvalidTimestep(dt)
       THEN /\ Raise(l, "InvalidTimestepError")
            /\ UNCHANGED <<sys, pose, stepLog, iters>>
       ELSE \/ /\ Goto(l, n)
               /\ sys' = [sys EXCEPT !.time = @ + dt, !.steps = @ + 1]
               /\ pose' = Stepped(pose)
               /\ stepLog' = Append(stepLog,
                      [dt |-> dt, time |-> sys.time + dt, pose |-> Stepped(pose),
                       entities |-> Cardinality(sys.items)])
               /\ iters' = iters + 1
            \/ /\ Raise(l, PhysicsFailure)
               /\ UNCHANGED <<sys, pose, stepLog, iters>>
    /\ UNCHANGED <<created, fixed, collision, cloud>>
    /\ UNCHANGED <<vis, runChecks, renderLog, shapeVars, idxVars>>


\* sys.DoStepDynamics(0): a timestep that is not positive.
sys_DoStepDynamics_zero == DoStepDynamics(240, 235, 0)

\* sys.DoStepDynamics(0.01)
sys_DoStepDynamics == DoStepDynamics(240, 235, TimeStep)

SimulationLoop ==
    \/ vis_Run
    \/ vis_BeginScene
    \/ vis_Render
    \/ vis_addStaticText
    \/ vis_EndScene
    \/ sys_DoStepDynamics

\* --------------------------------------------------------------------- Spec

Next ==
    \/ Example1
    \/ Example2
    \/ Example3
    \/ Viewer
    \/ SimulationLoop

Spec == Init /\ [][Next]_vars
\* ------------------------------------------------------------------- claims

\* The pose the setup leaves behind: only hull.Move has moved anything.
SetupPose == [e \in Entities |-> IF e = hull THEN 1 ELSE 0]

\* What render k must have drawn: the result of step k-1, or the setup's.
PoseBeforeRender(k) ==
    IF k = 1
    THEN [time |-> 0, pose |-> SetupPose]
    ELSE [time |-> stepLog[k - 1].time, pose |-> stepLog[k - 1].pose]

\* C1: render-before-step.  After N completed iterations (control is back at
\* the loop header, or the loop was left normally) exactly N renders and N
\* steps have occurred; render k drew the pose and time produced by step k-1
\* (the setup's for k = 1); inside an iteration Render precedes the step, and
\* no step falls between BeginScene and EndScene.
C1_RenderBeforeStep ==
    /\ Len(renderLog) = vis.renders
    /\ Len(stepLog) = sys.steps
    /\ sys.steps = iters
    /\ (pc = 235 \/ (pc = Exit /\ raised = "none" /\ runChecks > 0))
          => vis.renders = iters /\ sys.steps = iters
    /\ \A k \in 1 .. Len(renderLog) : renderLog[k] = PoseBeforeRender(k)
    /\ \A k \in 1 .. Len(stepLog) : stepLog[k].time = k * TimeStep
    /\ sys.steps <= vis.renders /\ vis.renders <= sys.steps + 1
    /\ sys.steps <= vis.ended /\ vis.ended <= vis.begun
    /\ vis.begun <= sys.steps + 1

\* Two iterations are complete and the second render drew the first step.
C1_Witness ==
    /\ pc = 235
    /\ iters = 2
    /\ vis.renders = 2
    /\ sys.steps = 2
    /\ renderLog[2].time = TimeStep
    /\ renderLog[2].pose[hull] = 2

\* C2 as stated: the stop condition is checked once per full iteration, each
\* check preceded by the render and the step of that iteration.
C2_CheckFollowsIteration ==
    /\ runChecks <= vis.renders
    /\ runChecks <= sys.steps

\* C2 as amended: vis.Run() is evaluated at the loop header, once before the
\* first iteration and once after each completed iteration (N + 1 checks for
\* N iterations), always with render and step counts equal to the number of
\* completed iterations; the body never evaluates it, so the stop condition
\* never ends an iteration between its render and its step.
C2_CheckAtLoopHeader ==
    /\ pc < 235 => runChecks = 0
    /\ pc = 235 => /\ runChecks = iters
                   /\ vis.renders = iters
                   /\ sys.steps = iters
    /\ pc > 235 => runChecks = iters + 1
    /\ (pc = Exit /\ raised = "none") => /\ vis.renders = sys.steps
                                         /\ vis.begun = vis.ended
                                         /\ sys.steps = iters

\* The loop was left by the stop condition after two full iterations and
\* three checks.
C2_Witness ==
    /\ pc = Exit
    /\ raised = "none"
    /\ iters = 2
    /\ runChecks = 3
    /\ vis.renders = 2
    /\ sys.steps = 2

\* C7: a failure raised by BeginScene, Render, addStaticText, EndScene or
\* DoStepDynamics ends the script: the failing call has no effect, the
\* exception stays what the engine raised, no statement runs after it (no
\* render, EndScene, step or stop-condition check), and the steps taken never
\* exceed the renders made.
C7_FailureEndsLoop ==
    [][/\ raised = "none"
       /\ raised' # "none" => /\ pc' = Exit
                              /\ raised' \in {RenderFailure, PhysicsFailure}
                              /\ (pc = 240) = (raised' = PhysicsFailure)
                              /\ vis' = vis
                              /\ sys' = sys
                              /\ runChecks' = runChecks
                              /\ iters' = iters
       /\ sys'.steps <= vis'.renders]_vars

\* Render drew the second frame, a later call of that frame failed before
\* EndScene, and the frame was abandoned.
C7_Witness ==
    /\ raised = RenderFailure
    /\ pc = Exit
    /\ vis.renders = 2
    /\ vis.ended = 1
    /\ sys.steps = 1

\* C10: every iteration adds one static text between Render and EndScene and
\* none is removed: after N completed iterations N texts have been added.
C10_TextPerFrame ==
    /\ pc = 235 => vis.texts = iters
    /\ vis.ended <= vis.texts
    /\ vis.texts <= vis.renders
    /\ iters <= vis.texts /\ vis.texts <= iters + 1

\* Three frames, three texts.
C10_Witness ==
    /\ pc = 235
    /\ iters = 3
    /\ vis.texts = 3
\* The shapes of the AddVisualShape calls made on entity e, in call order.
ShapesAttachedTo(e) ==
    LET calls == SelectSeq(attachCalls, LAMBDA c : c[1] = e)
    IN  [k \in 1 .. Len(calls) |-> calls[k][2]]

HasShapes(e) == attachments[e] # <<>>

InLoop == pc \in 235 .. 240

\* C4: lifecycle.  When the loop is entered all four entities are created,
\* configured (floor and body fixed, collision shapes set, cluster filled)
\* and in the Scene; no statement of the loop changes the entity set, a
\* fixed flag, a collision setting, the cluster, an attachment list or a
\* shape's configuration, and only DoStepDynamics (line 240) changes a pose.
C4_Lifecycle ==
    [][/\ (pc' \in 235 .. 240) =>
             /\ created' = Entities
             /\ sys'.items = Entities
             /\ fixed' = [e \in Entities |-> e \in {floor, body}]
             /\ \A e \in Entities : HasShapes(e)'
       /\ InLoop =>
             /\ created' = created
             /\ sys'.items = sys.items
             /\ fixed' = fixed
             /\ collision' = collision
             /\ cloud' = cloud
             /\ attachments' = attachments
             /\ attachCalls' = attachCalls
             /\ objects' = objects
             /\ cfg' = cfg
             /\ materials' = materials
             /\ pose' # pose => pc = 240
             /\ \A e \in {floor, body} : pose'[e] = pose[e]]_vars

\* Two steps have moved the movable entities and left the fixed ones.
C4_Witness ==
    /\ pc = 235
    /\ iters = 2
    /\ sys.items = Entities
    /\ pose = [e \in Entities |->
                 IF e = hull THEN 3 ELSE IF e = particles THEN 2 ELSE 0]

\* smallbox_0 .. smallbox_(n-1)
SmallBoxSeq(n) == [k \in 1 .. n |-> smallbox(k - 1)]

\* C5: attachment order.  At every point of the script each entity's list is
\* the sequence of the AddVisualShape calls made on it, in call order, a
\* shape attached again being a new entry; when the loop starts the lists
\* are those the claim gives (27 entries for body).
C5_AttachmentOrder ==
    /\ \A e \in Entities : attachments[e] = ShapesAttachedTo(e)
    /\ pc >= 235 =>
          /\ attachments[body] =
                <<sphere, box, cyl, mesh, mesh, mesh, objmesh>>
                   \o SmallBoxSeq(NumSmallBoxes)
          /\ Len(attachments[body]) = 27
          /\ attachments[floor] = <<boxfloor, pathfloor, nurbsasset>>
          /\ attachments[particles] = <<sphereparticle>>
    /\ (pc \in 165 .. 170 /\ j >= 0) =>
          attachments[body] =
             <<sphere, box, cyl, mesh, mesh, mesh, objmesh>>
                \o SmallBoxSeq(IF pc = 165 THEN j + 1 ELSE j)

\* The loop starts with the three mesh entries and the last smallbox in place.
C5_Witness ==
    /\ pc = 235
    /\ Len(attachments[body]) = 27
    /\ attachments[body][4] = mesh
    /\ attachments[body][6] = mesh
    /\ attachments[body][27] = smallbox(19)
    /\ Len(attachments[floor]) = 3

SetupCfg(o) ==
    CASE o = boxfloor   -> <<"SetColor">>
      [] o = pathfloor  -> <<"AddSubLine", "AddSubLine", "AddSubLine">>
      [] o = nurbs      -> <<"SetupData">>
      [] o = nurbsasset -> <<"SetLineGeometry">>
      [] o = orange_mat -> <<"SetDiffuseColor">>
      [] o = sphere     -> <<"AddMaterial">>
      [] o = box        -> <<"AddMaterial">>
      [] o = mesh       -> <<"addTriangle", "AddMaterial">>
      [] o = objmesh    -> <<"SetFilename", "SetTexture">>
      [] o \in SmallBoxes -> <<"SetColor">>
      [] OTHER          -> <<>>

\* C8: shapes and the shared material are not configured once attached.  An
\* object that is attached (a shape to an entity, orange_mat to a shape, the
\* nurbs line to its asset) has exactly the configuring calls it had at its
\* first attachment; when the loop starts every object is attached and holds
\* the calls the setup made on it.
C8_ImmutableOnceAttached ==
    /\ \A o \in Objects : firstUse[o] # -1 => Len(cfg[o]) = firstUse[o]
    /\ \A o \in Objects : (cfg[o] # <<>> \/ firstUse[o] # -1) => o \in objects
    /\ pc >= 235 => \A o \in Objects :
                       /\ firstUse[o] # -1
                       /\ cfg[o] = SetupCfg(o)
    /\ pc >= 235 => /\ materials[sphere] = <<orange_mat>>
                    /\ materials[box] = <<orange_mat>>
                    /\ materials[mesh] = <<orange_mat>>

\* mesh is attached three times and orange_mat is on three shapes, each with
\* the configuration it had before its first use.
C8_Witness ==
    /\ pc = 159
    /\ firstUse[mesh] = 2
    /\ cfg[mesh] = <<"addTriangle", "AddMaterial">>
    /\ firstUse[orange_mat] = 1
    /\ cfg[orange_mat] = <<"SetDiffuseColor">>
    /\ Len(SelectSeq(attachments[body], LAMBDA s : s = mesh)) = 3

\* C9: the particle cluster.  The collision shape is on the cluster before
\* the first particle is created; the loop at line 193 creates exactly
\* NumParticles (100) particles; mass and inertia are set and the cluster is
\* in the system before the loop starts; the count stays 100 afterwards.
C9_ParticleCluster ==
    /\ cloud.count > 0 => collision[particles].shapes >= 1
    /\ pc < 193 => cloud.count = 0
    /\ pc = 193 => cloud.count = i + 1
    /\ pc = 194 => cloud.count = i
    /\ pc >= 198 => cloud.count = NumParticles
    /\ NumParticles = 100
    /\ pc >= 235 => /\ cloud.massSet
                    /\ cloud.inertiaSet
                    /\ particles \in sys.items

\* The cluster is complete and the loop has run twice.
C9_Witness ==
    /\ pc = 235
    /\ iters = 2
    /\ cloud.count = 100
    /\ collision[particles].shapes = 1
    /\ cloud.massSet
====
